---- MODULE Spec2Model ----
(***************************************************************************)
(* Feedbot (src/app.py): a Streamlit page that resolves rubric weights in  *)
(* the sidebar, compiles a prompt, calls a chat model once, checks the     *)
(* parsed reply with four asserts, renders it and writes an audit file.    *)
(*                                                                         *)
(* Text is modelled as a sequence of one-character strings, so that        *)
(* str.strip() and len() are computed and not assumed.  A Python dict is a *)
(* sequence of [k, v] pairs with distinct keys, in insertion order.  A JSON*)
(* scalar of the model's reply is a tagged record [t, n, s].               *)
(***************************************************************************)
EXTENDS Integers, Sequences, FiniteSets, TLC

VARIABLES
    task_key,          \* st.sidebar.selectbox("Task", ...)
    widget,            \* the number_inputs the user has set: criterion id -> value
    weights,           \* dict criterion id -> weight built by the sidebar loop
    total_w,           \* running sum of the sidebar loop
    submission,        \* st.text_area
    year_group,        \* st.selectbox("Year group", ...)
    tone,              \* st.selectbox("Feedback tone", ...)
    next_steps_count,  \* st.slider, read by nothing in the handler
    now,               \* wall clock, in ticks
    logs,              \* directory logs/: file stamp -> record
    reply,             \* what the model client returned to this run
    msgs,              \* result of build_prompt in this run
    calls,             \* calls of client.chat.completions.create in this run
    shown,             \* page elements written by this run, in order
    status,            \* "idle", "done" or "error" (st.error was shown)
    weights2,          \* the dict a second build_prompt call is given
    msgs2              \* result of that second call

vars == <<task_key, widget, weights, total_w, submission, year_group, tone,
          next_steps_count, now, logs, reply, msgs, calls, shown, status,
          weights2, msgs2>>

-----------------------------------------------------------------------------
(* Bounds of the model *)

\* longest submission given to build_prompt as a function
MaxSubLen == 2
\* last clock tick
MaxClock == 2
\* clock ticks in one second of the file stamp
TicksPerSecond == 2

(* Program constants *)

MinWeight == 0
MaxWeight == 20
MinNextSteps == 2
MaxNextSteps == 6
DefaultNextSteps == 3

-----------------------------------------------------------------------------
(* Text *)

Chars == {" ", "a"}

IsSpace(c) == c = " "

RECURSIVE LStrip(_)
LStrip(s) == IF s # <<>> /\ IsSpace(Head(s)) THEN LStrip(Tail(s)) ELSE s

RECURSIVE RStrip(_)
RStrip(s) ==
    IF s # <<>> /\ IsSpace(s[Len(s)]) THEN RStrip(SubSeq(s, 1, Len(s) - 1)) ELSE s

\* str.strip()
Strip(s) == RStrip(LStrip(s))

\* truth value of a str
Truthy(s) == Len(s) > 0

StringsUpTo(n) == UNION {[1..k -> Chars] : k \in 0..n}

EmptyPlaceholder == <<"(", "e", "m", "p", "t", "y", ")">>

-----------------------------------------------------------------------------
(* Python dict *)

DictKeys(d) == {d[i].k : i \in 1..Len(d)}

DictHas(d, key) == key \in DictKeys(d)

DictGet(d, key) == d[CHOOSE i \in 1..Len(d) : d[i].k = key].v

\* d[key] = val
DictSet(d, key, val) ==
    IF DictHas(d, key)
    THEN [i \in 1..Len(d) |-> IF d[i].k = key THEN [k |-> key, v |-> val] ELSE d[i]]
    ELSE Append(d, [k |-> key, v |-> val])

\* sum(d.values())
RECURSIVE SumValues(_)
SumValues(d) == IF d = <<>> THEN 0 ELSE Head(d).v + SumValues(Tail(d))

\* the mapping a dict denotes, whatever its insertion order
AsMapping(d) == [key \in DictKeys(d) |-> DictGet(d, key)]

IsDict(d) == \A i, j \in 1..Len(d) : d[i].k = d[j].k => i = j

-----------------------------------------------------------------------------
(* Configuration: config.yaml as loaded into CFG *)

task_keys == <<"journal", "portfolio", "poster">>

Criterion(id, name, weight, desc) ==
    [id |-> id, name |-> name, weight |-> weight, desc |-> desc]

Rubrics(k) ==
    CASE k = "journal" ->
           [label |-> "Design journal",
            criteria |-> <<Criterion("planning", "Planning", 5, "plans the work"),
                           Criterion("execution", "Execution", 10, "carries it out")>>]
      [] k = "portfolio" ->
           [label |-> "Portfolio",
            criteria |-> <<Criterion("reflection", "Reflection", 5, "reflects")>>]
      [] k = "poster" ->
           [label |-> "Poster",
            criteria |-> <<Criterion("design", "Design", 5, "lays it out")>>]

Bands == <<"high", "mid", "low">>

Text(s) == [null |-> FALSE, text |-> s]
Null == [null |-> TRUE, text |-> <<>>]

\* CFG["exemplars"].get(task_key, {}): band -> text; a band with no value in
\* the YAML loads as None
Exemplars(k) ==
    CASE k = "journal" -> [b \in {"high", "mid"} |->
                              IF b = "high" THEN Text(<<" ", "a">>) ELSE Text(<<" ">>)]
      [] k = "portfolio" -> [b \in {} |-> Null]
      [] k = "poster" -> [b \in {"low"} |-> Null]

CriterionIds(rub) == {rub.criteria[i].id : i \in 1..Len(rub.criteria)}

YearGroups == <<"Year 7", "Year 8", "Other">>
Tones == <<"Supportive & specific", "Exam-prep focused", "Concise bullets">>

Range(s) == {s[i] : i \in 1..Len(s)}

-----------------------------------------------------------------------------
(* Sidebar: weight resolution, lines 25-30.  set is the widget state: the   *)
(* value of each number_input the user has changed, by criterion id.       *)

NoneSet == [id \in {} |-> 0]

\* mutant of number_input: the widget's value is dropped for the default
number_input_default(c, set) == c.weight

\* line 28: value=c["weight"] until the user sets another
number_input(c, set) == IF c.id \in DOMAIN set THEN set[c.id] ELSE c.weight

RECURSIVE SidebarLoop(_, _, _)
SidebarLoop(criteria, set, acc) ==
    IF criteria = <<>> THEN acc
    ELSE LET c == Head(criteria)
             w == number_input(c, set)
         IN SidebarLoop(Tail(criteria), set,
                        [weights |-> DictSet(acc.weights, c.id, w),
                         total_w |-> acc.total_w + w])

SidebarWeights(rub, set) ==
    SidebarLoop(rub.criteria, set, [weights |-> <<>>, total_w |-> 0])

-----------------------------------------------------------------------------
(* build_prompt, lines 45-95 *)

Failed(exc) == [exc |-> exc, msgs |-> <<>>]
NotCalled == Failed("not called")

CriterionOf(criteria, id) == criteria[CHOOSE i \in 1..Len(criteria) : criteria[i].id = id]

\* mutant of CriteriaBullets: the lines follow the dict's insertion order
CriteriaBulletsInInsertionOrder(criteria, w) ==
    LET known == SelectSeq(w, LAMBDA e : \E i \in 1..Len(criteria) : criteria[i].id = e.k)
    IN [i \in 1..Len(known) |->
           [name |-> CriterionOf(criteria, known[i].k).name,
            weight |-> known[i].v,
            desc |-> CriterionOf(criteria, known[i].k).desc]]

\* criteria_bullets, lines 48-51: one line per rubric criterion, in rubric order
RECURSIVE CriteriaBullets(_, _)
CriteriaBullets(criteria, w) ==
    IF criteria = <<>> THEN <<>>
    ELSE LET c == Head(criteria)
         IN <<[name |-> c.name, weight |-> DictGet(w, c.id), desc |-> c.desc]>>
            \o CriteriaBullets(Tail(criteria), w)

\* the bands the loop of lines 55-57 touches: band in ex
BandsPresent(ex) == SelectSeq(Bands, LAMBDA b : b \in DOMAIN ex)

\* ex[band].strip() on None raises AttributeError
ExamplesRaise(ex) == \E b \in DOMAIN ex : ex[b].null

\* lines 54-57; textwrap.dedent leaves the joined text as it is, since its
\* first line ("HIGH exemplar:") starts in column 0
Examples(ex) ==
    LET kept == SelectSeq(BandsPresent(ex), LAMBDA b : Truthy(Strip(ex[b].text)))
    IN [i \in 1..Len(kept) |-> [band |-> kept[i], text |-> Strip(ex[kept[i]].text)]]

SystemPrompt == "You are a teacher's assistant for Stage 4 Technology (Mandatory) in NSW."

\* line 72: sum(weights.values())
WeightSum(w) == SumValues(w)

\* line 76
SubmissionSection(sub) == IF Truthy(sub) THEN Strip(sub) ELSE EmptyPlaceholder

\* the f-string of lines 68-91, section by section
UserPrompt(rub, ex, sub, w, yg, tn) ==
    [task |-> rub.label,
     year_group |-> yg,
     tone |-> tn,
     weight_sum |-> WeightSum(w),
     criteria_bullets |-> CriteriaBullets(rub.criteria, w),
     submission |-> SubmissionSection(sub),
     examples |-> Examples(ex)]

\* year_group and tone are the module globals the f-string reads
build_prompt(tk, sub, w, yg, tn) ==
    LET rub == Rubrics(tk)
        ex == Exemplars(tk)
    IN IF \E id \in CriterionIds(rub) : ~DictHas(w, id) THEN Failed("KeyError")
       ELSE IF ExamplesRaise(ex) THEN Failed("AttributeError")
       ELSE [exc |-> "",
             msgs |-> <<[role |-> "system", content |-> SystemPrompt],
                        [role |-> "user",
                         content |-> UserPrompt(rub, ex, sub, w, yg, tn)]>>]

-----------------------------------------------------------------------------
(* The model's reply, as json.loads returns it *)

Missing == [t |-> "missing", n |-> 0, s |-> ""]
JInt(n) == [t |-> "int", n |-> n, s |-> ""]
\* a float with a fractional part; n is what int() makes of it
JFloat(n) == [t |-> "float", n |-> n, s |-> ""]
JStr(s) == [t |-> "str", n |-> 0, s |-> s]

List(items) == [t |-> "list", items |-> items]
NoList == [t |-> "missing", items |-> <<>>]
NotAList == [t |-> "str", items |-> <<>>]

CritObj(id, score, out_of, feedback) ==
    [id |-> id, score |-> score, out_of |-> out_of, feedback |-> feedback]

Data(overall, criteria, steps, total) ==
    [overall_comment |-> overall, criteria |-> criteria,
     next_steps |-> steps, total_score |-> total]

EmptyData == Data(Missing, NoList, NoList, Missing)

NoReply == [kind |-> "none", data |-> EmptyData]
\* client.chat.completions.create raised
Raised == [kind |-> "raise", data |-> EmptyData]
\* content that json.loads rejects
Prose == [kind |-> "text", data |-> EmptyData]
Json(d) == [kind |-> "json", data |-> d]

TwoSteps == List(<<JStr("A"), JStr("B")>>)
Planning(score, out_of) == CritObj(JStr("planning"), JInt(score), JInt(out_of), JStr("f1"))
Execution(score, out_of) == CritObj(JStr("execution"), JInt(score), JInt(out_of), JStr("f2"))

Replies ==
    { Raised,
      Prose,
      \* well-formed for the journal rubric
      Json(Data(JStr("Good start"), List(<<Planning(4, 5), Execution(8, 10)>>),
                TwoSteps, JInt(16))),
      \* well-formed for the portfolio rubric
      Json(Data(JStr("Good start"),
                List(<<CritObj(JStr("reflection"), JInt(4), JInt(5), JStr("f3"))>>),
                TwoSteps, JInt(16))),
      \* no "criteria"
      Json(Data(JStr("Good start"), NoList, TwoSteps, JInt(16))),
      \* "total_score": "17"
      Json(Data(JStr("Good start"), List(<<Planning(4, 5)>>), TwoSteps, JStr("17"))),
      \* no "overall_comment"
      Json(Data(Missing, List(<<Planning(4, 5)>>), TwoSteps, JInt(16))),
      \* "next_steps": "A"
      Json(Data(JStr("Good start"), List(<<Planning(4, 5)>>), NotAList, JInt(16))),
      \* "total_score": 25
      Json(Data(JStr("Good start"), List(<<Planning(4, 5), Execution(8, 10)>>),
                TwoSteps, JInt(25))),
      \* "total_score": 16.5
      Json(Data(JStr("Good start"), List(<<Planning(4, 5), Execution(8, 10)>>),
                TwoSteps, JFloat(16))),
      \* score 6 out of 5
      Json(Data(JStr("Good start"), List(<<Planning(6, 5), Execution(8, 10)>>),
                TwoSteps, JInt(16))),
      \* "id": "unlisted"
      Json(Data(JStr("Good start"),
                List(<<Planning(4, 5),
                       CritObj(JStr("unlisted"), JInt(3), JInt(5), JStr("f4"))>>),
                TwoSteps, JInt(16))),
      \* second criterion without "score"
      Json(Data(JStr("Good start"),
                List(<<Planning(4, 5),
                       CritObj(JStr("execution"), Missing, JInt(10), JStr("f2"))>>),
                TwoSteps, JInt(16))),
      \* first criterion without "feedback"
      Json(Data(JStr("Good start"),
                List(<<CritObj(JStr("planning"), JInt(4), JInt(5), Missing)>>),
                TwoSteps, JInt(16))) }

-----------------------------------------------------------------------------
(* The Get Feedback handler, lines 111-151 *)

Elem(kind, label, x, y) == [kind |-> kind, label |-> label, x |-> x, y |-> y]

\* lines 117-120
AssertsPass(data) ==
    /\ data.criteria.t = "list"
    /\ data.total_score.t \in {"int", "float"}
    /\ data.overall_comment.t # "missing"
    /\ data.next_steps.t = "list"

\* line 129: the rubric's name for the id, the id itself when there is none
DisplayName(rub, id) ==
    IF \E i \in 1..Len(rub.criteria) : id = JStr(rub.criteria[i].id)
    THEN JStr(rub.criteria[CHOOSE i \in 1..Len(rub.criteria) :
                              id = JStr(rub.criteria[i].id)].name)
    ELSE id

\* lines 127-131: c["id"], c["score"] and c["out_of"] are read before the
\* score line is written, c["feedback"] after it
RECURSIVE RenderCriteria(_, _, _)
RenderCriteria(items, rub, acc) ==
    IF items = <<>> THEN [shown |-> acc, exc |-> ""]
    ELSE LET c == Head(items)
             line == Elem("criterion", DisplayName(rub, c.id), c.score, c.out_of)
         IN IF c.id.t = "missing" \/ c.score.t = "missing" \/ c.out_of.t = "missing"
            THEN [shown |-> acc, exc |-> "KeyError"]
            ELSE IF c.feedback.t = "missing"
            THEN [shown |-> Append(acc, line), exc |-> "KeyError"]
            ELSE RenderCriteria(Tail(items), rub,
                     acc \o <<line, Elem("feedback", Missing, c.feedback, Missing)>>)

\* lines 133-135
RenderSteps(items) ==
    [i \in 1..Len(items) |-> Elem("step", JInt(i), items[i], Missing)]

\* lines 117-135: what the page shows and the exception that ended the run
Render(data, rub) ==
    IF ~AssertsPass(data) THEN [shown |-> <<>>, exc |-> "AssertionError"]
    ELSE LET top == <<Elem("total", Missing, JInt(data.total_score.n), Missing),
                      Elem("heading", JStr("Overall Comment"), Missing, Missing),
                      Elem("overall", Missing, data.overall_comment, Missing),
                      Elem("heading", JStr("Criteria Feedback"), Missing, Missing)>>
             crit == RenderCriteria(data.criteria.items, rub, top)
         IN IF crit.exc # "" THEN crit
            ELSE [shown |-> crit.shown
                            \o <<Elem("heading", JStr("Next Steps"), Missing, Missing)>>
                            \o RenderSteps(data.next_steps.items),
                  exc |-> ""]

\* lines 138-145
LogRecord(t, tk, yg, w, sub, data) ==
    [timestamp |-> t, task |-> tk, year_group |-> yg, weights |-> w,
     submission_len |-> Len(sub), result |-> data]

\* line 147: strftime('%Y%m%d_%H%M%S'), the second the clock shows
FileStamp(t) == t \div TicksPerSecond

\* open(..., "w") and json.dump: the file of that name is created or replaced
WriteLog(dir, name, rec) ==
    [f \in DOMAIN dir \cup {name} |-> IF f = name THEN rec ELSE dir[f]]

\* line 111: disabled=not submission.strip()
ButtonEnabled(sub) == Truthy(Strip(sub))

\* mutant of ModelCalls: the model is called whatever build_prompt did
ModelCallsAnyway(p) == 1

\* lines 113-114: call_model runs once, after build_prompt has returned
ModelCalls(p) == IF p.exc = "" THEN 1 ELSE 0

\* the try block: each raise ends it in the except clause of lines 150-151
Handler(tk, sub, w, yg, tn, r, t, dir) ==
    LET p == build_prompt(tk, sub, w, yg, tn)
        n == ModelCalls(p)
        out == Render(r.data, Rubrics(tk))
    IN IF n = 0
       THEN [msgs |-> p, calls |-> 0, reply |-> NoReply, shown |-> <<>>,
             status |-> "error", logs |-> dir]
       ELSE IF r.kind # "json"
       THEN [msgs |-> p, calls |-> n, reply |-> r, shown |-> <<>>,
             status |-> "error", logs |-> dir]
       ELSE IF out.exc # ""
       THEN [msgs |-> p, calls |-> n, reply |-> r, shown |-> out.shown,
             status |-> "error", logs |-> dir]
       ELSE [msgs |-> p, calls |-> n, reply |-> r, shown |-> out.shown,
             status |-> "done",
             logs |-> WriteLog(dir, FileStamp(t), LogRecord(t, tk, yg, w, sub, r.data))]

-----------------------------------------------------------------------------
(* The page.  Every interaction reruns the script: the sidebar loop builds  *)
(* weights and total_w again, and the handler runs only in the rerun the    *)
(* button caused.                                                           *)

\* what a rerun without the button leaves of the last request
Idle ==
    /\ reply' = NoReply
    /\ msgs' = NotCalled
    /\ calls' = 0
    /\ shown' = <<>>
    /\ status' = "idle"

WeightInputs == {MinWeight, 5}
Submissions == {<<>>, <<" ">>, <<" ", "a">>}

Init ==
    /\ task_key = task_keys[1]
    /\ widget = NoneSet
    /\ weights = SidebarWeights(Rubrics(task_keys[1]), NoneSet).weights
    /\ total_w = SidebarWeights(Rubrics(task_keys[1]), NoneSet).total_w
    /\ submission = <<>>
    /\ year_group = YearGroups[1]
    /\ tone = Tones[1]
    /\ next_steps_count = DefaultNextSteps
    /\ now = 0
    /\ logs = <<>>
    /\ reply = NoReply
    /\ msgs = NotCalled
    /\ calls = 0
    /\ shown = <<>>
    /\ status = "idle"
    /\ weights2 = <<>>
    /\ msgs2 = NotCalled

\* a new task shows new number_inputs, each at its default
SelectTask(k) ==
    /\ k # task_key
    /\ task_key' = k
    /\ widget' = NoneSet
    /\ weights' = SidebarWeights(Rubrics(k), NoneSet).weights
    /\ total_w' = SidebarWeights(Rubrics(k), NoneSet).total_w
    /\ Idle
    /\ UNCHANGED <<submission, year_group, tone, next_steps_count, now, logs,
                   weights2, msgs2>>

\* the user changes one number_input
SetWeight(id, w) ==
    /\ id \in CriterionIds(Rubrics(task_key))
    /\ w \in MinWeight..MaxWeight
    /\ w # DictGet(weights, id)
    /\ widget' = [i \in DOMAIN widget \cup {id} |-> IF i = id THEN w ELSE widget[i]]
    /\ \E res \in {SidebarWeights(Rubrics(task_key), widget')} :
          /\ weights' = res.weights
          /\ total_w' = res.total_w
    /\ Idle
    /\ UNCHANGED <<task_key, submission, year_group, tone, next_steps_count, now,
                   logs, weights2, msgs2>>

EditSubmission(s) ==
    /\ s # submission
    /\ submission' = s
    /\ Idle
    /\ UNCHANGED <<task_key, widget, weights, total_w, year_group, tone, next_steps_count,
                   now, logs, weights2, msgs2>>

SelectYearGroup(y) ==
    /\ y # year_group
    /\ year_group' = y
    /\ Idle
    /\ UNCHANGED <<task_key, widget, weights, total_w, submission, tone, next_steps_count,
                   now, logs, weights2, msgs2>>

SelectTone(t) ==
    /\ t # tone
    /\ tone' = t
    /\ Idle
    /\ UNCHANGED <<task_key, widget, weights, total_w, submission, year_group,
                   next_steps_count, now, logs, weights2, msgs2>>

\* the button: the whole handler, with the reply the model gives
GetFeedback(r) ==
    /\ ButtonEnabled(submission)
    /\ \E h \in {Handler(task_key, submission, weights, year_group, tone, r, now, logs)} :
          /\ msgs' = h.msgs
          /\ calls' = h.calls
          /\ reply' = h.reply
          /\ shown' = h.shown
          /\ status' = h.status
          /\ logs' = h.logs
    /\ UNCHANGED <<task_key, widget, weights, total_w, submission, year_group, tone,
                   next_steps_count, now, weights2, msgs2>>

Tick ==
    /\ now < MaxClock
    /\ now' = now + 1
    /\ UNCHANGED <<task_key, widget, weights, total_w, submission, year_group, tone,
                   next_steps_count, logs, reply, msgs, calls, shown, status,
                   weights2, msgs2>>

\* the page within one second of the clock, the tone left as it is
Next ==
    \/ \E k \in Range(task_keys) : SelectTask(k)
    \/ \E id \in CriterionIds(Rubrics(task_key)), w \in WeightInputs : SetWeight(id, w)
    \/ \E s \in Submissions : EditSubmission(s)
    \/ \E y \in Range(YearGroups) : SelectYearGroup(y)
    \/ \E r \in Replies : GetFeedback(r)

Spec == Init /\ [][Next]_vars

\* requests of one task over time: what reaches the directory logs/
NextAudit ==
    \/ \E s \in Submissions : EditSubmission(s)
    \/ \E y \in Range(YearGroups) : SelectYearGroup(y)
    \/ \E t \in Range(Tones) : SelectTone(t)
    \/ \E r \in Replies : GetFeedback(r)
    \/ Tick

SpecAudit == Init /\ [][NextAudit]_vars

-----------------------------------------------------------------------------
(* build_prompt as a function: its arguments and the globals it reads are   *)
(* drawn from bounded sets, then it is called, and called again with the    *)
(* same mapping in another insertion order.                                 *)

WeightKeys == {"planning", "execution", "nonexistent_id"}
WeightValues == {5, 10}

WeightDicts ==
    UNION {{d \in [1..n -> [k : WeightKeys, v : WeightValues]] : IsDict(d)} :
           n \in 0..Cardinality(WeightKeys)}

\* the dicts with the entries of d, in every insertion order
Reorderings(d) ==
    {[i \in 1..Len(d) |-> d[f[i]]] :
        f \in {g \in [1..Len(d) -> 1..Len(d)] : \A i, j \in 1..Len(d) : g[i] = g[j] => i = j}}

InitCompile ==
    /\ task_key \in Range(task_keys)
    /\ widget = NoneSet
    /\ weights \in WeightDicts
    /\ total_w = 0
    /\ submission \in StringsUpTo(MaxSubLen)
    /\ year_group \in Range(YearGroups)
    /\ tone \in Range(Tones)
    /\ next_steps_count = DefaultNextSteps
    /\ now = 0
    /\ logs = <<>>
    /\ reply = NoReply
    /\ msgs = NotCalled
    /\ calls = 0
    /\ shown = <<>>
    /\ status = "idle"
    /\ weights2 = <<>>
    /\ msgs2 = NotCalled

Compile ==
    /\ msgs = NotCalled
    /\ msgs' = build_prompt(task_key, submission, weights, year_group, tone)
    /\ UNCHANGED <<task_key, widget, weights, total_w, submission, year_group, tone,
                   next_steps_count, now, logs, reply, calls, shown, status,
                   weights2, msgs2>>

\* the second call: the slider has moved and the dict was filled in another order
Recompile(w, n) ==
    /\ msgs # NotCalled
    /\ msgs2 = NotCalled
    /\ weights2' = w
    /\ next_steps_count' = n
    /\ msgs2' = build_prompt(task_key, submission, w, year_group, tone)
    /\ UNCHANGED <<task_key, widget, weights, total_w, submission, year_group, tone,
                   now, logs, reply, msgs, calls, shown, status>>

NextCompile ==
    \/ Compile
    \/ \E w \in Reorderings(weights), n \in {MinNextSteps, MaxNextSteps} : Recompile(w, n)

SpecCompile == InitCompile /\ [][NextCompile]_vars

-----------------------------------------------------------------------------
(* What the specification asks of a reply: the hard checks 1-4 of its       *)
(* response validator                                                       *)

ReportScale == 20

ReportKinds == {"total", "overall", "criterion", "feedback", "step"}

\* the report elements on the page
ReportShown == {i \in 1..Len(shown) : shown[i].kind \in ReportKinds}

TopLevelOk(d) ==
    /\ d.overall_comment.t = "str"
    /\ d.criteria.t = "list"
    /\ d.next_steps.t = "list"
    /\ d.total_score.t \in {"int", "float"}

KnownId(c, rub) == c.id.t = "str" /\ c.id.s \in CriterionIds(rub)

ScoreOk(c) ==
    /\ c.score.t = "int"
    /\ c.out_of.t = "int"
    /\ 0 <= c.score.n
    /\ c.score.n <= c.out_of.n

CriterionOk(c, rub) ==
    /\ c.id.t # "missing"
    /\ c.score.t # "missing"
    /\ c.out_of.t # "missing"
    /\ c.feedback.t # "missing"
    /\ KnownId(c, rub)
    /\ ScoreOk(c)

TotalOk(d) == d.total_score.t = "int" /\ d.total_score.n \in 0..ReportScale

HardChecksPass(r, rub) ==
    /\ r.kind = "json"
    /\ TopLevelOk(r.data)
    /\ \A i \in 1..Len(r.data.criteria.items) : CriterionOk(r.data.criteria.items[i], rub)
    /\ TotalOk(r.data)

\* a score that is present and is no integer, negative, or above its out_of
BadScore(score, out_of) ==
    /\ score.t # "missing"
    /\ \/ score.t # "int"
       \/ score.n < 0
       \/ out_of.t = "int" /\ score.n > out_of.n

\* the model answered this request with an object
Answered == calls = 1 /\ reply.kind = "json"

RECURSIVE SumDefaults(_)
SumDefaults(criteria) ==
    IF criteria = <<>> THEN 0 ELSE Head(criteria).weight + SumDefaults(Tail(criteria))

-----------------------------------------------------------------------------
(* Claims *)

\* C1: when a hard check fails on the reply, the request ends in an error and
\* no element of the report has been shown.
C1_NoPartialReport ==
    (calls = 1 /\ ~HardChecksPass(reply, Rubrics(task_key)))
        => (status = "error" /\ ReportShown = {})

\* C2: a reply with a criterion score that is no integer, negative or above
\* its out_of ends the request in an error, and no such score is on the page
\* or in an audit record.
C2_ScoreOutOfRangeRejected ==
    /\ (Answered /\ reply.data.criteria.t = "list"
        /\ \E i \in 1..Len(reply.data.criteria.items) :
              BadScore(reply.data.criteria.items[i].score,
                       reply.data.criteria.items[i].out_of))
          => status = "error"
    /\ \A i \in 1..Len(shown) :
          shown[i].kind = "criterion" => ~BadScore(shown[i].x, shown[i].y)
    /\ \A f \in DOMAIN logs : \A i \in 1..Len(logs[f].result.criteria.items) :
          ~BadScore(logs[f].result.criteria.items[i].score,
                    logs[f].result.criteria.items[i].out_of)

\* C3: a total score on the page or in an audit record is an integer in
\* [0, 20], and a reply whose total_score is not ends in an error with no
\* report.
C3_TotalScoreInRange ==
    /\ (\E i \in 1..Len(shown) : shown[i].kind = "total") => TotalOk(reply.data)
    /\ \A f \in DOMAIN logs : TotalOk(logs[f].result)
    /\ (Answered /\ reply.data.total_score.t # "missing" /\ ~TotalOk(reply.data))
          => (status = "error" /\ ReportShown = {})

\* C4: a reply with a criterion id that is not of the active rubric ends in an
\* error with no report, and every criterion line on the page is headed by
\* the name of a criterion of the active rubric.
C4_UnknownCriterionRejected ==
    /\ (Answered /\ reply.data.criteria.t = "list"
        /\ \E i \in 1..Len(reply.data.criteria.items) :
              /\ reply.data.criteria.items[i].id.t # "missing"
              /\ ~KnownId(reply.data.criteria.items[i], Rubrics(task_key)))
          => (status = "error" /\ ReportShown = {})
    /\ \A i \in 1..Len(shown) :
          shown[i].kind = "criterion" =>
              \E j \in 1..Len(Rubrics(task_key).criteria) :
                  shown[i].label = JStr(Rubrics(task_key).criteria[j].name)

\* C5: build_prompt fails on a weight map with a key that is no criterion id
\* of the rubric, so the sum a prompt states covers rubric criteria only.
C5_UnknownWeightKeyRejected ==
    /\ (msgs # NotCalled /\ ~(DictKeys(weights) \subseteq CriterionIds(Rubrics(task_key))))
          => msgs.exc # ""
    /\ msgs.exc = "" =>
          msgs.msgs[2].content.weight_sum =
              SumValues(SelectSeq(weights,
                                  LAMBDA e : e.k \in CriterionIds(Rubrics(task_key))))

\* C6: the resolved weights have the rubric's criterion ids as their domain,
\* give each id the value set for it and its default weight otherwise, total_w
\* is their sum (the sum of the defaults when every value set equals its
\* default), and the sum a compiled prompt states is total_w.
C6_WeightsResolved ==
    LET criteria == Rubrics(task_key).criteria
    IN /\ IsDict(weights)
       /\ DictKeys(weights) = CriterionIds(Rubrics(task_key))
       /\ \A i \in 1..Len(criteria) :
             DictGet(weights, criteria[i].id) =
                 IF criteria[i].id \in DOMAIN widget
                 THEN widget[criteria[i].id] ELSE criteria[i].weight
       /\ total_w = SumValues(weights)
       /\ (\A id \in DOMAIN widget : widget[id] = CriterionOf(criteria, id).weight)
             => total_w = SumDefaults(criteria)
       /\ msgs.exc = "" => msgs.msgs[2].content.weight_sum = total_w

\* a prompt was compiled with a weight set away from its default
C6_Witness ==
    /\ msgs.exc = ""
    /\ DOMAIN widget # {}
    /\ total_w # SumDefaults(Rubrics(task_key).criteria)
    /\ msgs.msgs[2].content.weight_sum = total_w

\* C7: the model is called at most once in a request and only after
\* build_prompt has returned; when build_prompt fails the request ends in an
\* error with no call, and a call that fails is not made again.
C7_ModelCalledOnceAfterPrompt ==
    /\ calls \in {0, 1}
    /\ calls = 1 => msgs.exc = ""
    /\ (status # "idle" /\ msgs.exc = "") => calls = 1
    /\ (msgs # NotCalled /\ msgs.exc # "")
          => (status = "error" /\ calls = 0 /\ reply = NoReply)
    /\ reply = Raised => (calls = 1 /\ status = "error")

\* a request whose prompt compilation failed
C7_Witness ==
    /\ status = "error"
    /\ msgs.exc = "AttributeError"
    /\ calls = 0

\* C8: the submission section of a compiled prompt is the placeholder when the
\* submission is empty after trimming, and the trimmed text otherwise.
C8_EmptySubmissionPlaceholder ==
    msgs.exc = "" =>
        msgs.msgs[2].content.submission =
            IF Strip(submission) = <<>> THEN EmptyPlaceholder ELSE Strip(submission)

\* C9: two calls of build_prompt with the same task, submission, year group,
\* tone and weight mapping give the same messages, whatever the insertion
\* order of the weights and the slider; the criterion lines are one per rubric
\* criterion, in rubric order, each with the weight of its id.
C9_PromptDeterministic ==
    /\ (msgs # NotCalled /\ msgs2 # NotCalled
        /\ AsMapping(weights2) = AsMapping(weights))
          => msgs2 = msgs
    /\ msgs.exc = "" =>
          LET criteria == Rubrics(task_key).criteria
              lines == msgs.msgs[2].content.criteria_bullets
          IN /\ Len(lines) = Len(criteria)
             /\ \A i \in 1..Len(criteria) :
                   /\ lines[i].name = criteria[i].name
                   /\ lines[i].weight = DictGet(weights, criteria[i].id)

\* the second call compiled a prompt from another insertion order
C9_Witness ==
    /\ msgs2.exc = ""
    /\ weights2 # weights
    /\ next_steps_count # DefaultNextSteps

\* C10: a step writes to logs/ only at the end of a request that passed every
\* hard check and was rendered; the record holds the reply, the resolved
\* weights and the submission's length; no record already there is replaced.
C10_AuditTrail ==
    [][/\ logs' # logs =>
             /\ status' = "done"
             /\ HardChecksPass(reply', Rubrics(task_key'))
             /\ \E f \in DOMAIN logs' :
                   /\ logs'[f].result = reply'.data
                   /\ logs'[f].weights = weights'
                   /\ logs'[f].submission_len = Len(submission')
       /\ \A f \in DOMAIN logs : f \in DOMAIN logs' /\ logs'[f] = logs[f]]_vars

====
